---- MODULE Spec2Model ----
(***************************************************************************)
(* Model of the two programs of the repository:                            *)
(*   k2c-test.py      keplerian_to_cartesian, one call, statement by       *)
(*                    statement (specification Spec);                      *)
(*   planets-api.py   the fetch / convert / merge / write step             *)
(*                    (specification IngestSpec).                          *)
(* Python floats are represented in fixed point: the real x is the integer *)
(* x * Scale.  sin, cos, atan2 and sqrt are computed in that arithmetic.   *)
(***************************************************************************)
EXTENDS Integers, Sequences, FiniteSets, TLC

(***************************************************************************)
(* Fixed-point arithmetic standing for Python's float operations.          *)
(***************************************************************************)
Scale == 1000
Pi == 3142
TwoPi == 6283
HalfPi == 1571
QuarterPi == 785

Num(k) == k * Scale

Abs(x) == IF x < 0 THEN -x ELSE x
Sgn(x) == IF x < 0 THEN -1 ELSE 1

\* n / d rounded to the nearest integer (d # 0)
RDiv(n, d) == Sgn(n) * Sgn(d) * ((2 * Abs(n) + Abs(d)) \div (2 * Abs(d)))

\* float * float: x * y / Scale, the product taken in two parts so that a
\* large x (an angle after many revolutions) stays in range
Mul(x, y) == (x \div Scale) * y + RDiv((x % Scale) * y, Scale)

\* float / float: x * Scale / y, likewise in two parts (y # 0)
Div(x, y) ==
    LET q == Sgn(x) * Sgn(y) * (Abs(x) \div Abs(y))
        r == x - q * y
    IN  q * Scale + RDiv(r * Scale, y)

\* sine of an angle in [0, pi]
SinHalfTurn(r) ==
    LET q == r * (Pi - r)
    IN  RDiv(16 * (q \div 100) * Scale, (5 * Pi * Pi - 4 * q) \div 100)

\* math.sin: any finite angle is accepted, no wrap is needed by the caller
Sin(x) ==
    LET r == x % TwoPi
    IN  IF r <= Pi THEN SinHalfTurn(r) ELSE -SinHalfTurn(r - Pi)

\* math.cos
Cos(x) == Sin(x + HalfPi)

RECURSIVE ISqrt(_, _, _)
ISqrt(n, lo, hi) ==
    IF lo >= hi THEN lo
    ELSE LET mid == (lo + hi + 1) \div 2
         IN  IF mid * mid <= n THEN ISqrt(n, mid, hi) ELSE ISqrt(n, lo, mid - 1)

\* math.sqrt of a non-negative float (a negative one raises ValueError,
\* which the callers test with SqrtRaises)
Sqrt(x) == ISqrt(x * Scale, 0, 46340)
SqrtRaises(x) == x < 0

\* arctangent of a ratio z in [0, 1]
AtanUnit(z) == RDiv(z * QuarterPi, Scale) + RDiv(RDiv(273 * z, Scale) * (Scale - z), Scale)

\* math.atan2(y, x), in (-pi, pi]
Atan2(y, x) ==
    IF x = 0 /\ y = 0 THEN 0
    ELSE LET ax == Abs(x)
             ay == Abs(y)
             base == IF ay <= ax THEN AtanUnit(Div(ay, ax))
                                 ELSE HalfPi - AtanUnit(Div(ax, ay))
         IN  IF x >= 0 THEN Sgn(y) * base
             ELSE IF y >= 0 THEN Pi - base ELSE -(Pi - base)

(***************************************************************************)
(* keplerian_to_cartesian                                                  *)
(***************************************************************************)
solveIterations == 30
SecondsPerDay == 86400

\* bounds of the arguments a call is made with (a and mu in whole units
\* from -1, t in whole days from t0 = 0, M0 in steps of 7 rad, more than a
\* full turn)
MaxA == 2
MaxMu == 2
MaxDays == 1
MaxM0 == 1

ASet == -1 .. MaxA
MuSet == -1 .. MaxMu
\* eccentricities below -1, in [-1, 0), circular, elliptic, parabolic and
\* hyperbolic; for the last ones the solver need not converge, and the values
\* are taken so that its iterates stay within the integers TLC computes with
ESet == {-1500, -500, 0, 500, 900, 1000, 1200}
AngleSet == {0, HalfPi}
DaySet == 0 .. MaxDays
M0Set == {7 * k : k \in 0 .. MaxM0}

Arguments ==
    [a : {Num(k) : k \in ASet}, e : ESet, w : AngleSet, omega : AngleSet,
     i : AngleSet, t0 : {Num(0)}, t : {Num(k) : k \in DaySet},
     M0 : {Num(k) : k \in M0Set}, mu : {Num(k) : k \in MuSet}]

(***************************************************************************)
(* planets-api.py                                                          *)
(* A Python str is the sequence of its characters; a dict is the sequence  *)
(* of its <<key, value>> pairs in insertion order; a JSON / TOML value is  *)
(* tagged with its kind.                                                   *)
(***************************************************************************)
StrV(s) == [k |-> "str", v |-> s]
NumV(n) == [k |-> "num", v |-> n]
NullV == [k |-> "null", v |-> 0]
ObjV(d) == [k |-> "obj", v |-> d]

K_english_name == <<"e", "n", "g", "l", "i", "s", "h", "_", "n", "a", "m", "e">>
K_identifier == <<"i", "d", "e", "n", "t", "i", "f", "i", "e", "r">>
K_name == <<"n", "a", "m", "e">>
K_body_type == <<"b", "o", "d", "y", "_", "t", "y", "p", "e">>
K_parent == <<"p", "a", "r", "e", "n", "t">>
K_vol == <<"v", "o", "l">>
K_volume == <<"v", "o", "l", "u", "m", "e">>
K_mass == <<"m", "a", "s", "s">>
K_colour == <<"c", "o", "l", "o", "u", "r">>
K_volValue == <<"v", "o", "l", "V", "a", "l", "u", "e">>
K_volExponent == <<"v", "o", "l", "E", "x", "p", "o", "n", "e", "n", "t">>
K_massValue == <<"m", "a", "s", "s", "V", "a", "l", "u", "e">>
K_massExponent == <<"m", "a", "s", "s", "E", "x", "p", "o", "n", "e", "n", "t">>
K_englishName == <<"e", "n", "g", "l", "i", "s", "h", "N", "a", "m", "e">>
K_bodyType == <<"b", "o", "d", "y", "T", "y", "p", "e">>
K_meanRadius == <<"m", "e", "a", "n", "R", "a", "d", "i", "u", "s">>
K_mean_radius == <<"m", "e", "a", "n", "_", "r", "a", "d", "i", "u", "s">>
S_sun == <<"s", "u", "n">>
S_planet == <<"p", "l", "a", "n", "e", "t">>
S_dwarf_planet == <<"d", "w", "a", "r", "f", "_", "p", "l", "a", "n", "e", "t">>
S_earth == <<"e", "a", "r", "t", "h">>
S_moon == <<"m", "o", "o", "n">>
S_Sun == <<"S", "u", "n">>
S_Earth == <<"E", "a", "r", "t", "h">>
S_Moon == <<"M", "o", "o", "n">>
S_Ceres == <<"1", " ", "C", "e", "r", "e", "s">>
S_Eris == <<"E", "r", "i", "s">>
S_Star == <<"S", "t", "a", "r">>
S_Planet == <<"P", "l", "a", "n", "e", "t">>
S_DwarfPlanet == <<"D", "w", "a", "r", "f", " ", "P", "l", "a", "n", "e", "t">>
S_blue == <<"b", "l", "u", "e">>
S_other == <<"x">>

UpperChars == <<"A", "B", "C", "D", "E", "F", "G", "H", "I", "J", "K", "L", "M", "N", "O", "P", "Q", "R", "S", "T", "U", "V", "W", "X", "Y", "Z">>
LowerChars == <<"a", "b", "c", "d", "e", "f", "g", "h", "i", "j", "k", "l", "m", "n", "o", "p", "q", "r", "s", "t", "u", "v", "w", "x", "y", "z">>
Whitespace == {" ", "\t", "\n", "\r", "\f"}

IsUpper(c) == \E j \in 1 .. Len(UpperChars) : UpperChars[j] = c
LowerChar(c) ==
    IF IsUpper(c) THEN LowerChars[CHOOSE j \in 1 .. Len(UpperChars) : UpperChars[j] = c]
    ELSE c

\* the reduce of line 13: the first character starts the accumulator
RECURSIVE SnakeFold(_, _, _)
SnakeFold(acc, s, j) ==
    IF j > Len(s) THEN acc
    ELSE SnakeFold(acc \o (IF IsUpper(s[j]) THEN <<"_">> ELSE <<>>)
                       \o (IF s[j] \in Whitespace THEN <<>> ELSE <<s[j]>>),
                   s, j + 1)

\* snake_case of a non-empty str
snake_case(s) ==
    LET folded == SnakeFold(<<s[1]>>, s, 2)
    IN  [j \in 1 .. Len(folded) |-> LowerChar(folded[j])]

\* dict operations
Has(d, key) == \E j \in 1 .. Len(d) : d[j][1] = key
Get(d, key) == d[CHOOSE j \in 1 .. Len(d) : d[j][1] = key][2]
Put(d, key, val) ==
    IF Has(d, key)
    THEN [j \in 1 .. Len(d) |-> IF d[j][1] = key THEN <<key, val>> ELSE d[j]]
    ELSE Append(d, <<key, val>>)
Del(d, key) == SelectSeq(d, LAMBDA p : p[1] # key)
Values(d) == [j \in 1 .. Len(d) |-> d[j][2]]

\* d.update(other), other[j..] still to apply
RECURSIVE DictUpdate(_, _, _)
DictUpdate(d, other, j) ==
    IF j > Len(other) THEN d
    ELSE DictUpdate(Put(d, other[j][1], other[j][2]), other, j + 1)

\* { snake_case(key): value for key, value in body.items() }
RECURSIVE SnakeKeys(_, _, _)
SnakeKeys(acc, body, j) ==
    IF j > Len(body) THEN acc
    ELSE SnakeKeys(Put(acc, snake_case(body[j][1]), body[j][2]), body, j + 1)

\* { body["identifier"]: body for body in list }
RECURSIVE ByIdentifier(_, _, _)
ByIdentifier(acc, list, j) ==
    IF j > Len(list) THEN acc
    ELSE ByIdentifier(Put(acc, Get(list[j], K_identifier).v, list[j]), list, j + 1)

RECURSIVE Pow10(_)
Pow10(n) == IF n = 0 THEN 1 ELSE 10 * Pow10(n - 1)

\* the line of convert_body that raises TypeError on a raw body, 0 if none:
\* subscripting a null vol (28) or a null mass (31)
ConvertRaisesAt(raw) ==
    IF Get(raw, K_vol).k = "null" THEN 28
    ELSE IF Get(raw, K_mass).k = "null" THEN 31
    ELSE 0

\* convert_body, for a raw body on which it does not raise
convert_body(raw) ==
    LET b1 == SnakeKeys(<<>>, raw, 1)
        ident == snake_case(Get(b1, K_english_name).v)
        b2 == Put(b1, K_identifier, StrV(ident))
        b3 == Put(b2, K_name, Get(b2, K_english_name))
        b4 == Del(b3, K_english_name)
        b5 == Put(b4, K_body_type, StrV(snake_case(Get(b4, K_body_type).v)))
        b6 == IF ident # S_sun /\ Get(b5, K_body_type).v \in {S_planet, S_dwarf_planet}
              THEN Put(b5, K_parent, StrV(S_sun))
              ELSE b5
        vol == Get(b6, K_vol).v
        b7 == Put(b6, K_volume,
                  NumV(Get(vol, K_volValue).v * Pow10(Get(vol, K_volExponent).v)))
        b8 == Del(b7, K_vol)
        mass == Get(b8, K_mass).v
        b9 == Put(b8, K_mass,
                  NumV(Get(mass, K_massValue).v * Pow10(Get(mass, K_massExponent).v)))
        newBody == << <<K_identifier, Get(b9, K_identifier)>>, <<K_name, Get(b9, K_name)>> >>
    IN  newBody \o SelectSeq(b9, LAMBDA p : p[1] \notin {K_identifier, K_name})

\* a merge that appends every fetched body to the previous ones
MergeAppend(prev, fetched, j) == prev \o fetched

\* a merge that replaces a known body by the fetched one
RECURSIVE MergeReplace(_, _, _)
MergeReplace(prev, fetched, j) ==
    IF j > Len(fetched) THEN prev
    ELSE MergeReplace(Put(prev, fetched[j][1], fetched[j][2]), fetched, j + 1)

\* lines 64-69: the fetched dict merged into the previous one
RECURSIVE MergeInto(_, _, _)
MergeInto(prev, fetched, j) ==
    IF j > Len(fetched) THEN prev
    ELSE LET key == fetched[j][1]
             body == fetched[j][2]
         IN  IF ~Has(prev, key)
             THEN MergeInto(Put(prev, key, body), fetched, j + 1)
             ELSE MergeInto(Put(prev, key, DictUpdate(Get(prev, key), body, 1)),
                            fetched, j + 1)

\* toml.dump writes no key whose value is None; toml.load reads the rest back
toml_dump(list) ==
    [j \in 1 .. Len(list) |-> SelectSeq(list[j], LAMBDA p : p[2].k # "null")]
toml_load(f) == f.bodies

\* lines 73-78: the warnings printed for one body
WarningsFor(body) ==
    (IF ~Has(body, K_colour) /\ Has(body, K_name)
     THEN << <<"no colour", Get(body, K_name).v>> >> ELSE <<>>)
    \o
    (IF ~Has(body, K_parent) /\ Has(body, K_name)
     THEN << <<"no parent", Get(body, K_name).v>> >> ELSE <<>>)

RECURSIVE WarningsOf(_, _)
WarningsOf(list, j) ==
    IF j > Len(list) THEN <<>> ELSE WarningsFor(list[j]) \o WarningsOf(list, j + 1)

\* bounds of the inputs of a run
MaxFetched == 2
MaxPrev == 2
MaxRuns == 2

\* what the remote service may answer with for one body
RawBody(name, type, radius, vol, mass) ==
    << <<K_englishName, StrV(name)>>, <<K_bodyType, StrV(type)>>,
       <<K_meanRadius, radius>>, <<K_mass, mass>>, <<K_vol, vol>> >>
VolOf(v, x) == ObjV(<< <<K_volValue, NumV(v)>>, <<K_volExponent, NumV(x)>> >>)
MassOf(v, x) == ObjV(<< <<K_massValue, NumV(v)>>, <<K_massExponent, NumV(x)>> >>)
RawBodies ==
    { RawBody(S_Sun, S_Star, NumV(9), VolOf(1, 2), MassOf(2, 3)),
      RawBody(S_Earth, S_Planet, NumV(7), VolOf(1, 1), MassOf(6, 1)),
      RawBody(S_Ceres, S_DwarfPlanet, NullV, VolOf(4, 0), MassOf(9, 0)),
      RawBody(S_Eris, S_DwarfPlanet, NumV(1), NullV, MassOf(1, 1)) }

\* the bodies a previous catalog may hold: curated colour and parent or not
Curated(colour, parent) ==
    (IF colour = <<>> THEN <<>> ELSE << <<K_colour, StrV(colour)>> >>)
    \o (IF parent = <<>> THEN <<>> ELSE << <<K_parent, StrV(parent)>> >>)
PrevBody(id, name, fields, colour, parent) ==
    << <<K_identifier, StrV(id)>>, <<K_name, StrV(name)>> >> \o fields
        \o Curated(colour, parent)
PrevBodies ==
    { PrevBody(S_earth, S_Earth, << <<K_mean_radius, NumV(5)>> >>, c, p) :
        c \in {<<>>, S_blue}, p \in {<<>>, S_sun, S_other} }
    \cup { PrevBody(S_moon, S_Moon, <<>>, c, S_other) : c \in {<<>>, S_blue} }
    \cup { PrevBody(S_sun, S_Sun, <<>>, S_blue, p) : p \in {<<>>, S_other} }

SeqsUpTo(S, n) == UNION { [1 .. m -> S] : m \in 0 .. n }
DistinctIds(list) ==
    \A j1, j2 \in 1 .. Len(list) :
        Get(list[j1], K_identifier) = Get(list[j2], K_identifier) => j1 = j2

Responses == SeqsUpTo(RawBodies, MaxFetched)
Catalogs ==
    {[exists |-> FALSE, bodies |-> <<>>]}
    \cup {[exists |-> TRUE, bodies |-> l] :
            l \in {c \in SeqsUpTo(PrevBodies, MaxPrev) : DistinctIds(c)}}

VARIABLES
    ipc,          \* the statement the script is about to execute
    run,          \* the number of runs of the script started
    api,          \* the bodies the remote service answers with
    file,         \* assets/planets/planets.toml: whether it exists, its bodies
    x,            \* the response of line 46
    bodies,       \* lines 48, 49 and 71
    bodies_prev,  \* lines 50, 54 and 58
    out,          \* the warnings printed
    iexcLine      \* the line at which the run raised TypeError, 0 if none

ivars == <<ipc, run, api, file, x, bodies, bodies_prev, out, iexcLine>>

(***************************************************************************)
(* keplerian_to_cartesian, statement by statement                          *)
(***************************************************************************)
VARIABLES
    pc,      \* the statement the call is about to execute, or "raised"
    arg,     \* the values the caller passed
    i,       \* the local name i
    Mt, E, F, nu, rc,   \* the other locals (0 until assigned)
    exc,     \* the exception the call ended with, "none" while it runs
    excLine, \* the source line that raised it
    result   \* the pair the call returned, <<>> while it has returned nothing

kvars == <<pc, arg, i, Mt, E, F, nu, rc, exc, excLine, result>>

vars == <<kvars, ivars>>

Raise(name, line) ==
    /\ pc' = "raised"
    /\ exc' = name
    /\ excLine' = line
    /\ UNCHANGED result

\* a ** 3
Cube(v) == Mul(Mul(v, v), v)

\* Propagate without the t == t0 short-circuit: the propagation branch is
\* evaluated for every call
PropagateAlways ==
    /\ pc = "propagate"
    /\ LET dt == SecondsPerDay * (arg.t - arg.t0)
           a3 == Cube(arg.a)
       IN  IF a3 = 0
           THEN Raise("ZeroDivisionError", 43) /\ UNCHANGED Mt
           ELSE IF SqrtRaises(Div(arg.mu, a3))
           THEN Raise("ValueError", 43) /\ UNCHANGED Mt
           ELSE /\ Mt' = arg.M0 + Mul(dt, Sqrt(Div(arg.mu, a3)))
                /\ pc' = "solver_init"
                /\ UNCHANGED <<exc, excLine, result>>
    /\ UNCHANGED <<arg, i, E, F, nu, rc, ivars>>

\* lines 36-43
Propagate ==
    /\ pc = "propagate"
    /\ IF arg.t = arg.t0
       THEN /\ Mt' = arg.M0
            /\ pc' = "solver_init"
            /\ UNCHANGED <<exc, excLine, result>>
       ELSE LET dt == SecondsPerDay * (arg.t - arg.t0)
                a3 == Cube(arg.a)
            IN  IF a3 = 0
                THEN Raise("ZeroDivisionError", 43) /\ UNCHANGED Mt
                ELSE IF SqrtRaises(Div(arg.mu, a3))
                THEN Raise("ValueError", 43) /\ UNCHANGED Mt
                ELSE /\ Mt' = arg.M0 + Mul(dt, Sqrt(Div(arg.mu, a3)))
                     /\ pc' = "solver_init"
                     /\ UNCHANGED <<exc, excLine, result>>
    /\ UNCHANGED <<arg, i, E, F, nu, rc, ivars>>

\* the residual with the factor e dropped
ResidualNoE(e, EE, M) == EE - Sin(EE) - M

\* F = E - e * math.sin(E) - Mt
Residual(e, EE, M) == EE - Mul(e, Sin(EE)) - M

\* lines 47-50
SolverInit ==
    /\ pc = "solver_init"
    /\ i' = Num(0)
    /\ E' = Mt
    /\ F' = Residual(arg.e, Mt, Mt)
    /\ pc' = "solver_loop"
    /\ UNCHANGED <<arg, Mt, nu, rc, exc, excLine, result, ivars>>

\* the loop test off by one
LoopTestInclusive(k) == k <= Num(solveIterations)

\* while i < solveIterations
LoopTest(k) == k < Num(solveIterations)

\* 1 - e * math.cos(E)
Denominator(e, EE) == Num(1) - Mul(e, Cos(EE))

\* lines 53-57, one iteration
SolverStep ==
    /\ pc = "solver_loop"
    /\ LoopTest(i)
    /\ IF Denominator(arg.e, E) = 0
       THEN Raise("ZeroDivisionError", 54) /\ UNCHANGED <<i, E, F>>
       ELSE LET E1 == E - Div(F, Denominator(arg.e, E))
            IN  /\ E' = E1
                /\ F' = Residual(arg.e, E1, Mt)
                /\ i' = i + Num(1)
                /\ UNCHANGED <<pc, exc, excLine, result>>
    /\ UNCHANGED <<arg, Mt, nu, rc, ivars>>

\* line 53, the test fails
SolverExit ==
    /\ pc = "solver_loop"
    /\ ~LoopTest(i)
    /\ pc' = "true_anomaly"
    /\ UNCHANGED <<arg, i, Mt, E, F, nu, rc, exc, excLine, result, ivars>>

\* lines 60-63
TrueAnomaly ==
    /\ pc = "true_anomaly"
    /\ IF SqrtRaises(Num(1) + arg.e) \/ SqrtRaises(Num(1) - arg.e)
       THEN Raise("ValueError", IF SqrtRaises(Num(1) + arg.e) THEN 61 ELSE 62)
            /\ UNCHANGED nu
       ELSE /\ nu' = 2 * Atan2(Mul(Sqrt(Num(1) + arg.e), Sin(RDiv(E, 2))),
                               Mul(Sqrt(Num(1) - arg.e), Cos(RDiv(E, 2))))
            /\ pc' = "radius"
            /\ UNCHANGED <<exc, excLine, result>>
    /\ UNCHANGED <<arg, i, Mt, E, F, rc, ivars>>

\* rc = a * (1 - e * math.cos(E))
RadiusOf(a, e, EE) == Mul(a, Num(1) - Mul(e, Cos(EE)))

\* line 66
Radius ==
    /\ pc = "radius"
    /\ rc' = RadiusOf(arg.a, arg.e, E)
    /\ pc' = "orbital_position"
    /\ UNCHANGED <<arg, i, Mt, E, F, nu, exc, excLine, result, ivars>>

\* the names the module's global scope binds (lines 1, 2 and 4)
GlobalNames == {"math", "np", "keplerian_to_cartesian"}

\* line 71: the list display evaluates math.cos(nu), then looks up maths
OrbitalPosition ==
    /\ pc = "orbital_position"
    /\ "maths" \notin GlobalNames
    /\ Raise("NameError", 71)
    /\ UNCHANGED <<arg, i, Mt, E, F, nu, rc, ivars>>

(***************************************************************************)
(* planets-api.py, the script's statements                                 *)
(***************************************************************************)
\* line 46
Fetch ==
    /\ ipc = "fetch"
    /\ x' = api
    /\ ipc' = "convert"
    /\ UNCHANGED <<run, api, file, bodies, bodies_prev, out, iexcLine, kvars>>

\* lines 48-49
Convert ==
    /\ ipc = "convert"
    /\ IF \E j \in 1 .. Len(x) : ConvertRaisesAt(x[j]) # 0
       THEN /\ iexcLine' = ConvertRaisesAt(
                   x[CHOOSE j \in 1 .. Len(x) :
                       /\ ConvertRaisesAt(x[j]) # 0
                       /\ \A h \in 1 .. j - 1 : ConvertRaisesAt(x[h]) = 0])
            /\ ipc' = "raised"
            /\ UNCHANGED bodies
       ELSE /\ bodies' = ByIdentifier(<<>>, [j \in 1 .. Len(x) |-> convert_body(x[j])], 1)
            /\ ipc' = "load"
            /\ UNCHANGED iexcLine
    /\ UNCHANGED <<run, api, file, x, bodies_prev, out, kvars>>

\* lines 50-58
LoadPrev ==
    /\ ipc = "load"
    /\ bodies_prev' = ByIdentifier(<<>>, IF file.exists THEN toml_load(file) ELSE <<>>, 1)
    /\ out' = IF file.exists THEN out ELSE Append(out, <<"no previous catalog", <<>> >>)
    /\ ipc' = "merge"
    /\ UNCHANGED <<run, api, file, x, bodies, iexcLine, kvars>>

\* lines 64-71
Merge ==
    /\ ipc = "merge"
    /\ bodies_prev' = MergeInto(bodies_prev, bodies, 1)
    /\ bodies' = Values(bodies_prev')
    /\ ipc' = "warn"
    /\ UNCHANGED <<run, api, file, x, out, iexcLine, kvars>>

\* lines 73-78
Warn ==
    /\ ipc = "warn"
    /\ out' = out \o WarningsOf(bodies, 1)
    /\ ipc' = "write"
    /\ UNCHANGED <<run, api, file, x, bodies, bodies_prev, iexcLine, kvars>>

\* lines 80-81
Write ==
    /\ ipc = "write"
    /\ file' = [exists |-> TRUE, bodies |-> toml_dump(bodies)]
    /\ ipc' = "done"
    /\ UNCHANGED <<run, api, x, bodies, bodies_prev, out, iexcLine, kvars>>

\* the script is run again: a new process, the same file and remote service
Rerun ==
    /\ ipc \in {"done", "raised"}
    /\ run < MaxRuns
    /\ run' = run + 1
    /\ ipc' = "fetch"
    /\ x' = <<>> /\ bodies' = <<>> /\ bodies_prev' = <<>> /\ out' = <<>>
    /\ iexcLine' = 0
    /\ UNCHANGED <<api, file, kvars>>

(***************************************************************************)
(* Specifications                                                          *)
(***************************************************************************)
\* no call of keplerian_to_cartesian is in progress
NoCall ==
    /\ pc = "idle"
    /\ arg = [a |-> 0, e |-> 0, w |-> 0, omega |-> 0, i |-> 0, t0 |-> 0,
              t |-> 0, M0 |-> 0, mu |-> 0]
    /\ i = 0 /\ Mt = 0 /\ E = 0 /\ F = 0 /\ nu = 0 /\ rc = 0
    /\ exc = "none" /\ excLine = 0 /\ result = <<>>

\* the ingestion script is not running
NoRun ==
    /\ ipc = "idle" /\ run = 0
    /\ api = <<>> /\ file = [exists |-> FALSE, bodies |-> <<>>]
    /\ x = <<>> /\ bodies = <<>> /\ bodies_prev = <<>> /\ out = <<>>
    /\ iexcLine = 0

\* one call of keplerian_to_cartesian with arguments drawn from Arguments
Init ==
    /\ arg \in Arguments
    /\ pc = "propagate"
    /\ i = arg.i
    /\ Mt = 0 /\ E = 0 /\ F = 0 /\ nu = 0 /\ rc = 0
    /\ exc = "none"
    /\ excLine = 0
    /\ result = <<>>
    /\ NoRun

Next ==
    \/ Propagate
    \/ SolverInit
    \/ SolverStep
    \/ SolverExit
    \/ TrueAnomaly
    \/ Radius
    \/ OrbitalPosition

Spec == Init /\ [][Next]_vars

\* runs of planets-api.py against a remote answer and a catalog file
IngestInit ==
    /\ ipc = "fetch" /\ run = 1
    /\ api \in Responses
    /\ file \in Catalogs
    /\ x = <<>> /\ bodies = <<>> /\ bodies_prev = <<>> /\ out = <<>>
    /\ iexcLine = 0
    /\ NoCall

IngestNext ==
    \/ Fetch
    \/ Convert
    \/ LoadPrev
    \/ Merge
    \/ Warn
    \/ Write
    \/ Rerun

IngestSpec == IngestInit /\ [][IngestNext]_vars

(***************************************************************************)
(* Properties of keplerian_to_cartesian                                    *)
(***************************************************************************)
Ended == pc \in {"raised", "returned"}

\* the call got past the solver loop
PastSolver ==
    \/ pc \in {"true_anomaly", "radius", "orbital_position", "returned"}
    \/ pc = "raised" /\ excLine > 57

ValidElements == arg.a > 0 /\ arg.e >= 0 /\ arg.e < Num(1) /\ arg.mu > 0

\* C1: throughout the call the name i holds the inclination the caller
\* passed, so the rotation stage would read the caller's inclination.
C1_InclinationKept == i = arg.i

\* C2: a call with valid elements never ends in an error; once it has ended
\* it has returned a position and a velocity.
C2_ValidCallReturns ==
    ValidElements => /\ exc = "none"
                     /\ (Ended => Len(result) = 2)

Scenario ==
    /\ arg.w = 0 /\ arg.omega = 0 /\ arg.i = 0
    /\ arg.e = 0 /\ arg.M0 = 0 /\ arg.t = arg.t0
    /\ arg.a > 0 /\ arg.mu > 0

\* C3: with w = omega = i = 0, e = 0, M0 = 0 and t = t0 the call ends with
\* position (a, 0, 0) and velocity (0, +sqrt(mu / a), 0).
C3_IdentityScenario ==
    (Scenario /\ Ended) =>
        result = << <<arg.a, 0, 0>>, <<0, Sqrt(Div(arg.mu, arg.a)), 0>> >>

\* C4: a call with a <= 0 or mu <= 0 never gets past validation: it is still
\* at its first statement or has ended in a domain error raised before the
\* mean motion of line 43 is computed, and it returns nothing.
C4_BadAxisOrMuRejected ==
    (arg.a <= 0 \/ arg.mu <= 0) =>
        /\ pc \in {"propagate", "raised"}
        /\ (pc = "raised" => exc = "ValueError" /\ excLine < 43)
        /\ result = <<>>

\* C5: a call with e < 0 or e >= 1 (and a, mu valid) executes no solver
\* iteration, ends in InvalidEccentricity and returns nothing.
C5_BadEccentricityRejected ==
    ((arg.e < 0 \/ arg.e >= Num(1)) /\ arg.a > 0 /\ arg.mu > 0) =>
        /\ pc \in {"propagate", "solver_init", "solver_loop", "raised"}
        /\ (pc = "solver_loop" => i = Num(0))
        /\ (pc = "raised" => exc = "InvalidEccentricity")
        /\ result = <<>>

\* C6: when t = t0, for all elements, the propagation branch raises nothing,
\* Mt is M0 exactly once line 37 has run, and the solver's initial guess E
\* is that same M0 (not wrapped).
C6_EpochShortCircuit ==
    arg.t = arg.t0 =>
        /\ (pc # "propagate" => Mt = arg.M0)
        /\ ~(pc = "raised" /\ excLine = 43)
        /\ (pc = "solver_loop" /\ i = Num(0) => E = arg.M0)

\* a call at t = t0 with a <= 0 and M0 beyond a full turn has entered the
\* solver with E = M0
C6_Witness ==
    /\ arg.t = arg.t0 /\ arg.a <= 0 /\ arg.M0 > TwoPi
    /\ pc = "solver_loop" /\ i = Num(0) /\ E = arg.M0

\* C7: for 0 <= e < 1 the solver starts from E = Mt, every update divides
\* by a positive denominator so the loop never raises, it never stops early,
\* and it is left with exactly solveIterations updates counted.
C7_FixedIterationCount ==
    (arg.e >= 0 /\ arg.e < Num(1)) =>
        /\ (pc = "solver_loop" =>
               /\ i \in {Num(k) : k \in 0 .. solveIterations}
               /\ (i = Num(0) => E = Mt)
               /\ (LoopTest(i) => Denominator(arg.e, E) > 0))
        /\ ~(pc = "raised" /\ excLine \in 47 .. 57)
        /\ (PastSolver => i = Num(solveIterations))

\* an elliptic orbit propagated away from t0 has left the loop after
\* solveIterations updates that moved E away from Mt
C7_Witness ==
    /\ arg.e > 0 /\ arg.e < Num(1) /\ arg.t # arg.t0
    /\ pc = "true_anomaly" /\ i = Num(solveIterations) /\ E # Mt

\* C8: for e = 0 the solver state never moves: E = Mt and F = 0 at the
\* start and after every iteration, and the radius rc equals a.
C8_CircularInvariant ==
    arg.e = 0 =>
        /\ (pc = "solver_loop" \/ PastSolver => E = Mt /\ F = 0)
        /\ (pc = "orbital_position" \/ (pc = "raised" /\ excLine = 71)
              => rc = arg.a)

\* a circular orbit propagated away from t0 has been through the whole
\* solver and line 66
C8_Witness ==
    /\ arg.e = 0 /\ arg.t # arg.t0 /\ Mt # arg.M0
    /\ pc = "raised" /\ excLine = 71 /\ i = Num(solveIterations)
    /\ E = Mt /\ rc = arg.a /\ arg.a > 0

(***************************************************************************)
(* Properties of planets-api.py                                            *)
(***************************************************************************)
\* body q carries field key with the value body p has for it, if p has it
SameField(p, q, key) == Has(p, key) => (Has(q, key) /\ Get(q, key) = Get(p, key))

\* the response holds a body converted to identifier id that convert_body
\* gives the parent "sun" (line 25)
FetchedAsPlanet(id) ==
    \E j \in 1 .. Len(x) :
        /\ snake_case(Get(x[j], K_englishName).v) = id
        /\ id # S_sun
        /\ snake_case(Get(x[j], K_bodyType).v) \in {S_planet, S_dwarf_planet}

Fetched(id) ==
    \E j \in 1 .. Len(x) : snake_case(Get(x[j], K_englishName).v) = id

\* C9 as stated: when the catalog is written, every body of the previous
\* catalog is still there with its curated colour and its curated parent.
C9_CuratedKept ==
    [][ipc = "write" =>
        \A j \in 1 .. Len(file.bodies) :
            \E h \in 1 .. Len(file'.bodies) :
                /\ Get(file'.bodies[h], K_identifier) = Get(file.bodies[j], K_identifier)
                /\ SameField(file.bodies[j], file'.bodies[h], K_colour)
                /\ SameField(file.bodies[j], file'.bodies[h], K_parent)]_vars

\* C9 amended: when the catalog is written, every body of the previous
\* catalog is still there with its curated colour; its curated parent is kept
\* unless the body was fetched as a planet or dwarf planet other than the
\* sun, and then the written parent is "sun"; a body that was not fetched is
\* written unchanged.
C9_ColourKeptParentOfPlanetsSun ==
    [][ipc = "write" =>
        \A j \in 1 .. Len(file.bodies) :
            \E h \in 1 .. Len(file'.bodies) :
                /\ Get(file'.bodies[h], K_identifier) = Get(file.bodies[j], K_identifier)
                /\ SameField(file.bodies[j], file'.bodies[h], K_colour)
                /\ IF FetchedAsPlanet(Get(file.bodies[j], K_identifier).v)
                   THEN /\ Has(file'.bodies[h], K_parent)
                        /\ Get(file'.bodies[h], K_parent) = StrV(S_sun)
                   ELSE SameField(file.bodies[j], file'.bodies[h], K_parent)
                /\ (~Fetched(Get(file.bodies[j], K_identifier).v)
                      => file'.bodies[h] = file.bodies[j])]_vars

\* the merged earth is about to replace a previous earth whose curated
\* parent was not the sun, next to a moon that was not fetched
C9_Witness ==
    /\ ipc = "write" /\ file.exists
    /\ \E j \in 1 .. Len(file.bodies), h \in 1 .. Len(bodies) :
          /\ Get(file.bodies[j], K_identifier) = StrV(S_earth)
          /\ Has(file.bodies[j], K_colour)
          /\ Has(file.bodies[j], K_parent)
          /\ Get(file.bodies[j], K_parent) = StrV(S_other)
          /\ Get(bodies[h], K_identifier) = StrV(S_earth)
          /\ Get(bodies[h], K_colour) = Get(file.bodies[j], K_colour)
          /\ Get(bodies[h], K_parent) = StrV(S_sun)
          /\ Get(bodies[h], K_mean_radius) = NumV(7)
    /\ \E j \in 1 .. Len(file.bodies) :
          Get(file.bodies[j], K_identifier) = StrV(S_moon)

\* C10: a run of the script that follows an earlier run, with the same
\* fetched bodies, writes the catalog it found: same bodies, same order, same
\* fields and values.
C10_SecondRunWritesSame ==
    [][(ipc = "write" /\ run > 1) => file' = file]_vars

\* a second run has merged the fetched bodies into the catalog of the first
\* and is about to write three bodies, one of them with a null field
C10_Witness ==
    /\ ipc = "write" /\ run = 2 /\ file.exists
    /\ Len(x) = 2 /\ Len(bodies) = 3
    /\ \E h \in 1 .. Len(bodies) : Has(bodies[h], K_colour)
    /\ \E h \in 1 .. Len(bodies) :
          Has(bodies[h], K_mean_radius) /\ Get(bodies[h], K_mean_radius) = NullV
    /\ toml_dump(bodies) = file.bodies

====
